---- MODULE Spec2Model ----
(***************************************************************************)
(* Model of src/main.py: the rolling background estimator                  *)
(* (class BackgroundExtraction) and the falling-icon game (class PlayGame  *)
(* and the main loop).                                                     *)
(*                                                                         *)
(* Arithmetic of the running mean is exact: background[c] holds the mean   *)
(* multiplied by Scale (= maxlen!), so that every division by len(buffer)  *)
(* or by maxlen the code performs is an exact integer division.  float32   *)
(* rounding of the accumulator is not represented.                         *)
(***************************************************************************)
EXTENDS Integers, Sequences, FiniteSets, TLC

\* ------------------------------------------------------------------ bounds
MaxN == 3            \* largest window size (maxlen) explored
MaxCalls == 4        \* largest number of apply() calls explored
NumCells == 2        \* number of cells of a (downscaled, gray) frame
MaxTicksE2E == 7     \* number of apply() calls of the window-5 scenario
GameWidth == 4       \* PlayGame.width  (columns of the play area)
GameHeight == 24     \* PlayGame.height (rows of the play area)
IconSize == 2        \* PlayGame.size   (side of the icon)
MaxScore == 2        \* ticks stop once the score has reached this value

\* ------------------------------------------------------- program constants
MainMaxlen == 5      \* BackgroundExtraction(width, height, scale, maxlen=5)
Cutoff == 15         \* cv2.threshold(abs_diff, 15, 255, THRESH_BINARY)
MaskOn == 255        \* maxval of cv2.threshold
PixelMax == 255      \* largest value of a uint8 sample
InitSpeed == 15      \* reset_game: self.speed = 15
InitLives == 5       \* reset_game: self.lives = 5
SpeedLo == 10        \* np.random.randint(10, ...)
MissSpeedHi == 15    \* np.random.randint(10, 15) after a miss
CatchSpeedHi == 20   \* np.random.randint(10, 20) after a catch

Cells == 1..NumCells
\* sample values of a gray frame: 31 after 0 puts a two-frame mean at 15.5
Values == {0, 31}
Frames == [Cells -> Values]
Uniform(v) == [c \in Cells |-> v]
\* the frames apply() may be handed: of the estimator's size, and one cell larger
RawDims == {NumCells, NumCells + 1}
RawFrames == UNION {[1..n -> Values] : n \in RawDims}
\* the frames of the window-5 scenario: all-zero and all-255
ScenarioFrames == {Uniform(0), Uniform(PixelMax)}

VARIABLES
    maxlen,       \* BackgroundExtraction.maxlen
    buffer,       \* BackgroundExtraction.buffer: deque of gray frames
    background,   \* BackgroundExtraction.background, times Scale; "None" before the first frame
    ad_mask,      \* the mask computed by the last apply(); "None" before the first
    err,          \* exception raised by the last call (__init__, then apply()), "none" if it returned
    hist,         \* history: every gray frame apply() has accepted, in arrival order
    in_dim,       \* history: the number of cells of the frame the last apply() was given
    logo_mask,    \* PlayGame.mask: the offsets (row, column) of the icon's opaque pixels
    x, y,         \* PlayGame.x, PlayGame.y
    speed,        \* PlayGame.speed
    score,        \* PlayGame.score
    lives,        \* PlayGame.lives
    game_over,    \* PlayGame.game_over
    collision,    \* main loop: what update_position returned
    pc,           \* main loop: "tick" (lines 140-160), "key" (162-166), "done" (after break)
    op            \* history: the last step taken, its input (the mask or the key) and
                  \* the game-over flag, score and lives it started from

bgvars == <<maxlen, buffer, background, ad_mask, err, hist, in_dim>>
gamevars == <<logo_mask, x, y, speed, score, lives, game_over, collision, pc, op>>
vars == <<maxlen, buffer, background, ad_mask, err, hist, in_dim,
          logo_mask, x, y, speed, score, lives, game_over, collision, pc, op>>

RECURSIVE Fact(_)
Fact(n) == IF n <= 1 THEN 1 ELSE n * Fact(n - 1)

\* background is stored as mean * Scale
Scale == Fact(maxlen)

RECURSIVE SumCell(_, _)
SumCell(buf, c) == IF buf = <<>> THEN 0 ELSE buf[1][c] + SumCell(Tail(buf), c)

\* calculate_background without the division by len(buffer)
calculate_background_undivided(buf) ==
    [c \in Cells |-> SumCell(buf, c) * Scale]

\* calculate_background: zeros, += every item of the buffer, /= len(buffer)
calculate_background(buf) ==
    [c \in Cells |-> (SumCell(buf, c) * Scale) \div Len(buf)]

\* update_background that does not take the evicted frame out
update_background_keeps_old(bg, old_frame, new_frame) ==
    [c \in Cells |-> bg[c] + (new_frame[c] * Scale) \div maxlen]

\* update_background with the two frames exchanged
update_background_swapped(bg, old_frame, new_frame) ==
    [c \in Cells |-> (bg[c] - (new_frame[c] * Scale) \div maxlen)
                        + (old_frame[c] * Scale) \div maxlen]

\* update_background: background -= old_frame / maxlen; background += new_frame / maxlen
update_background(bg, old_frame, new_frame) ==
    [c \in Cells |-> (bg[c] - (old_frame[c] * Scale) \div maxlen)
                        + (new_frame[c] * Scale) \div maxlen]

\* deque.pop() in place of popleft(): the deque without its newest item
pop_newest(buf) == SubSeq(buf, 1, Len(buf) - 1)

\* deque.popleft(): the deque without its oldest item
popleft(buf) == Tail(buf)

\* deque(maxlen=n).append: a full deque discards its oldest item
deque_append(buf, frame) ==
    IF maxlen = 0 THEN <<>>
    ELSE IF Len(buf) >= maxlen THEN Append(Tail(buf), frame)
    ELSE Append(buf, frame)

\* update_frame, buffer part
update_frame_buffer(buf, frame) ==
    IF Len(buf) < maxlen
    THEN deque_append(buf, frame)
    ELSE deque_append(popleft(buf), frame)

\* update_frame, background part
update_frame_background(buf, bg, frame) ==
    IF Len(buf) < maxlen
    THEN calculate_background(deque_append(buf, frame))
    ELSE update_background(bg, buf[1], frame)

\* get_background rounding to nearest in place of the truncating cast
get_background_rounded(bg) ==
    [c \in Cells |-> ((2 * bg[c] + Scale) \div (2 * Scale)) % 256]

\* get_background: background.astype('uint8')
get_background(bg) == [c \in Cells |-> (bg[c] \div Scale) % 256]

\* cv2.absdiff on uint8
absdiff(a, b) == IF a >= b THEN a - b ELSE b - a

\* a threshold that includes the cutoff
threshold_inclusive(d) == IF d >= Cutoff THEN MaskOn ELSE 0

\* cv2.threshold(src, 15, 255, THRESH_BINARY)
threshold(d) == IF d > Cutoff THEN MaskOn ELSE 0

\* the difference taken against the background as it was before update_frame
\* (all zero before the first frame)
mask_background_stale(bg_before, bg_after) ==
    IF hist = <<>> THEN [c \in Cells |-> 0] ELSE bg_before

\* apply: self.update_frame(gray) runs before self.get_background() is read, so
\* the difference is taken against the background update_frame has left
mask_background(bg_before, bg_after) == bg_after

\* apply, from update_frame(gray) on; gray is the downscaled, blurred frame
apply(gray) ==
    IF Len(buffer) >= maxlen /\ buffer = <<>>
    THEN \* update_frame: popleft from an empty deque (maxlen = 0)
         /\ err' = "IndexError"
         /\ UNCHANGED <<maxlen, buffer, background, ad_mask, hist>>
    ELSE /\ buffer' = update_frame_buffer(buffer, gray)
         /\ background' = update_frame_background(buffer, background, gray)
         /\ ad_mask' = [c \in Cells |->
                           threshold(absdiff(
                               get_background(mask_background(background, background'))[c],
                               gray[c]))]
         /\ hist' = Append(hist, gray)
         /\ err' = "none"
         /\ UNCHANGED maxlen

\* apply: cv2.resize(frame, (self.width, self.height)): a frame of any size comes
\* out with the estimator's cells, each taken from the input cell it falls on,
\* a frame of the estimator's size unchanged (interpolation weights, the gray
\* conversion and the blur are not represented)
down_scale(frame) ==
    [c \in Cells |-> frame[((c - 1) * Len(frame)) \div NumCells + 1]]

\* apply, the whole method
apply_frame(frame) ==
    /\ in_dim' = Len(frame)
    /\ apply(down_scale(frame))

\* ------------------------------------------------------------------- game
Rows == 0..(GameHeight - 1)
Cols == 0..(GameWidth - 1)

\* np.random.randint(lo, hi): lo <= n < hi
randint(lo, hi) == lo..(hi - 1)

\* the foreground masks handed to update_position: nothing, everything, one pixel
NoMask == [kind |-> "unset", r |-> 0, c |-> 0]
AllBg == [kind |-> "none", r |-> 0, c |-> 0]
AllFg == [kind |-> "all", r |-> 0, c |-> 0]
Pixel(r, c) == [kind |-> "pixel", r |-> r, c |-> c]
Masks == {AllBg, AllFg} \cup {Pixel(r, c) : r \in Rows, c \in Cols}

\* fg_mask[r, c]
MaskAt(m, r, c) ==
    IF m.kind = "all" THEN MaskOn
    ELSE IF m.kind = "pixel" /\ m.r = r /\ m.c = c THEN MaskOn
    ELSE 0

\* PlayGame.mask = threshold(gray(logo), 1, 255): sprites with every pixel opaque,
\* and with only the diagonal opaque
Offsets == (0..(IconSize - 1)) \X (0..(IconSize - 1))
LogoShapes == {Offsets, {o \in Offsets : o[1] = o[2]}}

\* bottom test that lets the icon touch the last row
reaches_bottom_strict(y1) == y1 + IconSize > GameHeight

\* update_position: if self.y + self.size >= self.height
reaches_bottom(y1) == y1 + IconSize >= GameHeight

\* lives test that misses zero
lives_exhausted_strict(l) == l < 0

\* update_position: if self.lives <= 0
lives_exhausted(l) == l <= 0

\* overlap test over the whole footprint, transparent pixels included
check_footprint(mask, y1, x0) ==
    \E o \in Offsets : MaskAt(mask, y1 + o[1], x0 + o[2]) # 0

\* update_position: np.any(fg_mask[y:y+size, x:x+size][np.where(self.mask)])
check(mask, y1, x0) ==
    \E o \in logo_mask : MaskAt(mask, y1 + o[1], x0 + o[2]) # 0

\* update_position without its game-over guard
suppressed_never == FALSE

\* update_position: if self.game_over: return False
suppressed == game_over

\* reset_game that leaves the score
reset_game_keeps_score ==
    /\ x' \in randint(0, GameWidth - IconSize)
    /\ y' = 0
    /\ speed' = InitSpeed
    /\ lives' = InitLives
    /\ game_over' = FALSE
    /\ UNCHANGED score

reset_game ==
    /\ x' \in randint(0, GameWidth - IconSize)
    /\ y' = 0
    /\ speed' = InitSpeed
    /\ score' = 0
    /\ lives' = InitLives
    /\ game_over' = FALSE

update_position(mask) ==
    IF suppressed
    THEN /\ collision' = FALSE
         /\ UNCHANGED <<x, y, speed, score, lives, game_over>>
    ELSE LET y1 == y + speed IN
         IF reaches_bottom(y1)
         THEN /\ lives' = lives - 1
              /\ y' = 0
              /\ speed' \in randint(SpeedLo, MissSpeedHi)
              /\ x' \in randint(0, GameWidth - IconSize)
              /\ game_over' = (IF lives_exhausted(lives') THEN TRUE ELSE game_over)
              /\ collision' = FALSE
              /\ UNCHANGED score
         ELSE IF check(mask, y1, x)
         THEN /\ score' = score + 1
              /\ y' = 0
              /\ speed' \in randint(SpeedLo, CatchSpeedHi)
              /\ x' \in randint(0, GameWidth - IconSize)
              /\ collision' = TRUE
              /\ UNCHANGED <<lives, game_over>>
         ELSE /\ y' = y1
              /\ collision' = FALSE
              /\ UNCHANGED <<x, speed, score, lives, game_over>>

\* the record kept in op
Step(name, mask, k) ==
    [name |-> name, mask |-> mask, key |-> k, was_over |-> game_over,
     from_score |-> score, from_lives |-> lives]

\* main loop, lines 140-160: fg_mask arrives and update_position runs on it
MainTick(mask) ==
    /\ pc = "tick"
    /\ game_over \/ score < MaxScore
    /\ update_position(mask)
    /\ op' = Step("update_position", mask, "none")
    /\ pc' = "key"
    /\ UNCHANGED logo_mask
    /\ UNCHANGED bgvars

Keys == {"q", "r", "other"}

\* restart offered in every state
restart_always == TRUE

\* main loop: elif key == ord('r') and game.game_over
restart_allowed == game_over

\* main loop, lines 162-166: key = cv2.waitKey(1)
MainKey(k) ==
    /\ pc = "key"
    /\ IF k = "q"
       THEN /\ pc' = "done"
            /\ op' = Step("waitKey", NoMask, k)
            /\ UNCHANGED <<x, y, speed, score, lives, game_over>>
       ELSE IF k = "r" /\ restart_allowed
       THEN /\ reset_game
            /\ op' = Step("reset_game", NoMask, k)
            /\ pc' = "tick"
       ELSE /\ pc' = "tick"
            /\ op' = Step("waitKey", NoMask, k)
            /\ UNCHANGED <<x, y, speed, score, lives, game_over>>
    /\ UNCHANGED <<logo_mask, collision>>
    /\ UNCHANGED bgvars

\* ----------------------------------------------------------- initial states
\* BackgroundExtraction.__init__
InitEstimator ==
    /\ maxlen \in 0..MaxN
    /\ buffer = <<>>
    /\ background = "None"
    /\ ad_mask = "None"
    /\ err = "none"
    /\ hist = <<>>
    /\ in_dim = 0

\* the estimator of the main program: BackgroundExtraction(width, height, scale, maxlen=5)
InitMainEstimator ==
    /\ maxlen = MainMaxlen
    /\ buffer = <<>>
    /\ background = "None"
    /\ ad_mask = "None"
    /\ err = "none"
    /\ hist = <<>>
    /\ in_dim = 0

\* PlayGame.__init__ (which ends in reset_game), before the first pass of the loop
InitGame ==
    /\ logo_mask \in LogoShapes
    /\ x \in randint(0, GameWidth - IconSize)
    /\ y = 0
    /\ speed = InitSpeed
    /\ score = 0
    /\ lives = InitLives
    /\ game_over = FALSE
    /\ collision = FALSE
    /\ pc = "tick"
    /\ op = [name |-> "__init__", mask |-> NoMask, key |-> "none", was_over |-> FALSE,
             from_score |-> 0, from_lives |-> InitLives]

\* one game, as constructed, for the runs that exercise the estimator alone
InitGameFixed ==
    /\ InitGame
    /\ logo_mask = Offsets
    /\ x = 0

\* -------------------------------------------------------------- estimator
ObserveBG(frame) ==
    /\ Len(hist) < MaxCalls
    /\ apply_frame(frame)
    /\ UNCHANGED gamevars

NextBG == \E frame \in RawFrames : ObserveBG(frame)

InitBG == InitEstimator /\ InitGameFixed

SpecBG == InitBG /\ [][NextBG]_vars

\* ----------------------------------- the estimator of main, constant frames
ObserveE2E(frame) ==
    /\ Len(hist) < MaxTicksE2E
    /\ apply_frame(frame)
    /\ UNCHANGED gamevars

NextE2E == \E frame \in ScenarioFrames : ObserveE2E(frame)

InitE2E == InitMainEstimator /\ InitGameFixed

SpecE2E == InitE2E /\ [][NextE2E]_vars

\* ------------------------------------------------------- game and main loop
NextGame ==
    \/ \E mask \in Masks : MainTick(mask)
    \/ \E k \in Keys : MainKey(k)

InitMain == InitMainEstimator /\ InitGame

SpecGame == InitMain /\ [][NextGame]_vars

\* ------------------- the main loop under all-background masks, no 'q', no 'r'
NextNoCatch ==
    \/ MainTick(AllBg)
    \/ MainKey("other")

\* the loop is a single thread that never waits: a pass that can run does run
SpecNoCatch == InitMain /\ [][NextNoCatch]_vars /\ WF_vars(NextNoCatch)

\* ================================================================ properties
Min(a, b) == IF a <= b THEN a ELSE b
Abs(n) == IF n >= 0 THEN n ELSE -n

\* the frame the last apply() was given
LastFrame == hist[Len(hist)]

\* the mean at cell c cast to the 8-bit domain
CastMean(c) == background[c] \div Scale

\* the window is full and the last apply() took the incremental path
Evicted == maxlen >= 1 /\ Len(hist) > maxlen

\* C1: after every apply() the running mean equals, at every cell, the
\* arithmetic mean of the frames held in the window, in warm-up and once the
\* window is full (exact arithmetic): mean * len(window) = sum(window).
C1_MeanIsWindowAverage ==
    hist # <<>> =>
        /\ buffer # <<>>
        /\ \A c \in Cells : background[c] * Len(buffer) = SumCell(buffer, c) * Scale

\* C1 witness: two evictions have happened, the evicted frames differ from the
\* frames that replaced them, and the mean is not an integer
C1_Witness ==
    /\ maxlen >= 2
    /\ Len(hist) >= maxlen + 2
    /\ hist[Len(hist) - maxlen] # LastFrame
    /\ hist[Len(hist) - maxlen - 1] # hist[Len(hist) - 1]
    /\ \E c \in Cells : background[c] % Scale # 0

\* C2: after k calls the window holds exactly the last min(k, N) frames in
\* arrival order; so its length is min(k, N): never more than N, and N from the
\* N-th call on.
C2_WindowIsLastFrames ==
    LET k == Len(hist)
        m == Min(k, maxlen)
    IN  /\ Len(buffer) = m
        /\ Len(buffer) <= maxlen
        /\ buffer = SubSeq(hist, k - m + 1, k)

\* C2 witness: a frame arrived at a full window of at least two frames, and
\* the frame evicted differs from the frames kept
C2_Witness ==
    /\ maxlen >= 2
    /\ Len(hist) = maxlen + 1
    /\ Len(buffer) = maxlen
    /\ \A i \in 1..Len(buffer) : buffer[i] # hist[1]

\* C3 as claimed: a cell is foreground iff |frame - mean| > 15, with mean the
\* running mean itself (not cast).
C3_MaskIffDiffersFromMean ==
    hist # <<>> =>
        \A c \in Cells :
            (ad_mask[c] = MaskOn) <=>
                (Abs(LastFrame[c] * Scale - background[c]) > Cutoff * Scale)

\* C3 amended: a cell is foreground iff |frame - m| > 15, with m the running
\* mean cast (truncated) to an 8-bit integer; every cell is 0 or 255.
C3_MaskIffDiffersFromCastMean ==
    hist # <<>> =>
        \A c \in Cells :
            /\ ad_mask[c] \in {0, MaskOn}
            /\ (ad_mask[c] = MaskOn) <=>
                   \/ LastFrame[c] - CastMean(c) > Cutoff
                   \/ CastMean(c) - LastFrame[c] > Cutoff

\* C3 witness: a cell whose frame value is more than 15 below the mean, and
\* exactly 15 below the cast mean: it is background
C3_Witness ==
    /\ hist # <<>>
    /\ \E c \in Cells :
          /\ background[c] - LastFrame[c] * Scale > Cutoff * Scale
          /\ CastMean(c) - LastFrame[c] = Cutoff
          /\ ad_mask[c] = 0

\* C4: with d = |frame - cast mean|, d > 15 gives foreground, d < 15 gives
\* background, and d = 15 gives background.
C4_ThresholdExclusive ==
    hist # <<>> =>
        \A c \in Cells :
            LET d == Abs(LastFrame[c] - CastMean(c))
            IN  /\ d > Cutoff => ad_mask[c] = MaskOn
                /\ d < Cutoff => ad_mask[c] = 0
                /\ d = Cutoff => ad_mask[c] = 0

\* C4 witness: one mask with a cell at d = 15 and a cell at d = 16
C4_Witness ==
    /\ hist # <<>>
    /\ \E c1 \in Cells, c2 \in Cells :
          /\ Abs(LastFrame[c1] - CastMean(c1)) = Cutoff
          /\ ad_mask[c1] = 0
          /\ Abs(LastFrame[c2] - CastMean(c2)) = Cutoff + 1
          /\ ad_mask[c2] = MaskOn

\* the first n frames of the history are all-zero
ZeroPrefix(n) == \A i \in 1..n : hist[i] = Uniform(0)

\* C5: window size 5: after each of 5 all-zero frames the mean is 0 and the
\* mask all-background; after a following all-255 frame the mean is 51 and the
\* mask all-foreground.
C5_EndToEnd ==
    /\ (Len(hist) \in 1..MainMaxlen /\ ZeroPrefix(Len(hist))) =>
           \A c \in Cells : background[c] = 0 /\ ad_mask[c] = 0
    /\ (Len(hist) = MainMaxlen + 1 /\ ZeroPrefix(MainMaxlen)
            /\ LastFrame = Uniform(PixelMax)) =>
           \A c \in Cells : background[c] = 51 * Scale /\ ad_mask[c] = MaskOn

\* C5 witness: the scenario has run to its sixth frame
C5_Witness ==
    /\ maxlen = MainMaxlen
    /\ Len(hist) = MainMaxlen + 1
    /\ ZeroPrefix(MainMaxlen)
    /\ LastFrame = Uniform(PixelMax)
    /\ \A c \in Cells : ad_mask[c] = MaskOn

\* C6: after N calls with N identical frames on a fresh estimator of window
\* size N >= 1, the mean equals the frame at every cell.
C6_MeanConvergence ==
    (maxlen >= 1 /\ Len(hist) = maxlen /\ \A i \in 1..Len(hist) : hist[i] = hist[1]) =>
        \A c \in Cells : background[c] = hist[1][c] * Scale

\* C6 witness: a window of at least two frames filled with the constant frame 31
C6_Witness ==
    /\ maxlen >= 2
    /\ Len(hist) = maxlen
    /\ \A i \in 1..Len(hist) : hist[i] = Uniform(31)
    /\ \A c \in Cells : background[c] = 31 * Scale

\* the last step was a call of update_position made while playing
PlayingTick == op.name = "update_position" /\ ~op.was_over

\* C7 as claimed: in Playing, update_position called with an all-foreground
\* mask reports a catch, whatever the position and the speed: it returns
\* True, the score goes up by one, y is back at 0 and lives is untouched.
C7_AllForegroundCatches ==
    (PlayingTick /\ op.mask = AllFg) =>
        /\ collision = TRUE
        /\ score = op.from_score + 1
        /\ y = 0
        /\ lives = op.from_lives

\* C8: the game turns over exactly on the tick whose decrement brings lives to
\* 0; in particular a miss tick taken with one life left ends the game.
C8_GameOverExactlyAtZeroLives ==
    /\ (~op.was_over /\ game_over) <=>
           (PlayingTick /\ lives = op.from_lives - 1 /\ lives = 0)
    /\ (PlayingTick /\ op.from_lives = 1 /\ lives # op.from_lives) =>
           (lives = 0 /\ game_over)

\* C8 witness: a miss tick taken with one life left has just ended the game
C8_Witness ==
    /\ PlayingTick
    /\ op.from_lives = 1
    /\ lives = 0
    /\ game_over
    /\ collision = FALSE

\* C9: restart from GameOver gives score 0, lives 5, game-over flag off,
\* y = 0, speed 15 and x in [0, width - size), whatever the score was.
C9_RestartResets ==
    op.name = "reset_game" =>
        /\ op.was_over
        /\ score = 0
        /\ lives = InitLives
        /\ game_over = FALSE
        /\ y = 0
        /\ speed = InitSpeed
        /\ x >= 0
        /\ x < GameWidth - IconSize

\* C9 witness: a game that had scored has just been restarted
C9_Witness ==
    /\ op.name = "reset_game"
    /\ op.from_score > 0
    /\ op.from_lives = 0
    /\ score = 0

\* C10: while the game-over flag is set, a call of update_position, whatever
\* the mask, leaves x, y, speed, score, lives and the flag as they are and
\* returns False.
C10_GameOverSuppressesUpdates ==
    [][(pc = "tick" /\ game_over /\ pc' = "key") =>
           /\ x' = x
           /\ y' = y
           /\ speed' = speed
           /\ score' = score
           /\ lives' = lives
           /\ game_over'
           /\ collision' = FALSE]_vars

\* C10 witness: update_position has just run on an all-foreground mask with
\* the game over, after a game in which the score had gone up
C10_Witness ==
    /\ op.name = "update_position"
    /\ op.was_over
    /\ op.mask = AllFg
    /\ game_over
    /\ score > 0
    /\ collision = FALSE

\* C11 as claimed: an estimator whose window size is below 1 is refused when
\* it is configured (whatever the exception is called), so none exists that
\* could be given a frame.
C11_WindowBelowOneRejected ==
    maxlen < 1 => (err # "none" /\ hist = <<>>)

\* C12 as claimed: apply() given a frame whose size is not the estimator's
\* fails: the frame does not enter the window and no mask comes back.
C12_DimensionMismatchRejected ==
    [][(in_dim' # NumCells) =>
           (err' # "none" /\ buffer' = buffer /\ hist' = hist)]_vars

\* a step of the main loop that calls update_position while playing
PlayingTickStep == pc = "tick" /\ ~game_over /\ pc' = "key"

\* the icon placed at row y1, column x0 has an opaque pixel on a foreground
\* pixel of mask m
Overlaps(m, y1, x0) ==
    \E o \in logo_mask :
        /\ y1 + o[1] \in Rows
        /\ x0 + o[2] \in Cols
        /\ MaskAt(m, y1 + o[1], x0 + o[2]) # 0

\* the icon advanced from the current position touches the bottom of the area
AtBottom == y + speed + IconSize >= GameHeight

\* C13 as claimed: while playing, a tick on which the advanced icon overlaps a
\* foreground pixel is a catch (score + 1, y = 0, speed in [10, 20), x in
\* [0, width - size), lives untouched, True returned), and True is returned on
\* no other tick.
C13_CatchOnOverlap ==
    [][/\ (PlayingTickStep /\ Overlaps(op'.mask, y + speed, x)) =>
              /\ collision' = TRUE
              /\ score' = score + 1
              /\ y' = 0
              /\ speed' \in SpeedLo..(CatchSpeedHi - 1)
              /\ x' \in 0..(GameWidth - IconSize - 1)
              /\ lives' = lives
       /\ (pc = "tick" /\ pc' = "key" /\ collision' = TRUE) =>
              (~game_over /\ Overlaps(op'.mask, y + speed, x))]_vars

C15_NormalTick ==
    [][(PlayingTickStep /\ ~AtBottom /\ ~Overlaps(op'.mask, y + speed, x)) =>
           /\ y' = y + speed
           /\ x' = x
           /\ speed' = speed
           /\ score' = score
           /\ lives' = lives
           /\ game_over' = game_over
           /\ collision' = FALSE]_vars

\* C15 witness: the icon has just advanced, for the second time in a row,
\* under a mask whose one foreground pixel lies on a transparent pixel of it
C15_Witness ==
    /\ PlayingTick
    /\ y = 2 * speed
    /\ collision = FALSE
    /\ lives = op.from_lives
    /\ score = op.from_score
    /\ op.mask = Pixel(y, x + 1)
    /\ <<0, 1>> \notin logo_mask

\* a step of the main loop that reads key k
KeyStep(k) == pc = "key" /\ op'.key = k /\ op'.name # "update_position"

\* C16: the restart key pressed while playing changes nothing of the game;
\* pressed in GameOver it puts the game back in Playing; the quit key ends the
\* loop from either state, and nothing runs after it.
C16_RestartOnlyInGameOver ==
    [][/\ (KeyStep("r") /\ ~game_over) =>
              /\ UNCHANGED <<x, y, speed, score, lives, game_over>>
              /\ pc' = "tick"
       /\ (KeyStep("r") /\ game_over) =>
              /\ game_over' = FALSE
              /\ lives' = InitLives
              /\ pc' = "tick"
       /\ KeyStep("q") =>
              /\ pc' = "done"
              /\ UNCHANGED <<x, y, speed, score, lives, game_over>>
       /\ pc = "done" => UNCHANGED vars]_vars

\* C16 witness: the restart key has just been pressed in a game that is being
\* played, with a point scored and a life lost, and the game is as it was
C16_Witness ==
    /\ op.name = "waitKey"
    /\ op.key = "r"
    /\ ~op.was_over
    /\ ~game_over
    /\ score = 1
    /\ lives = InitLives - 1
    /\ y > 0
    /\ pc = "tick"

\* the mean, cast to 8 bits, of the window as it was before the last frame came in
PreUpdateCastMean(c) ==
    LET k == Len(hist)
        m == Min(k - 1, maxlen)
        before == SubSeq(hist, k - m, k - 1)
    IN  SumCell(before, c) \div Len(before)

\* C17: on both paths the mask is taken against the mean of the window that
\* already holds the current frame; so the first apply() of a fresh estimator
\* returns an all-background mask, and so does every apply() of an estimator
\* of window size 1.
C17_MaskAgainstUpdatedMean ==
    hist # <<>> =>
        /\ buffer[Len(buffer)] = LastFrame
        /\ \A c \in Cells :
               (ad_mask[c] = MaskOn) <=>
                   (Abs(LastFrame[c] - SumCell(buffer, c) \div Len(buffer)) > Cutoff)
        /\ Len(hist) = 1 => \A c \in Cells : ad_mask[c] = 0
        /\ maxlen = 1 => \A c \in Cells : ad_mask[c] = 0

\* C17 witness: on the incremental path, a cell that the mean before the update
\* would have marked foreground is background
C17_Witness ==
    /\ Evicted
    /\ maxlen >= 2
    /\ \E c \in Cells :
          /\ Abs(LastFrame[c] - PreUpdateCastMean(c)) > Cutoff
          /\ ad_mask[c] = 0

\* C18: in every reachable state 0 <= lives <= 5 and the game is over iff
\* lives = 0; no step but a restart raises lives or lowers the score.
C18_LivesAndFlag ==
    /\ lives >= 0
    /\ lives <= InitLives
    /\ game_over <=> (lives = 0)
    /\ op.name # "reset_game" => (lives <= op.from_lives /\ score >= op.from_score)

\* C18 witness: a restart has just raised lives from 0 and lowered the score
C18_Witness ==
    /\ op.name = "reset_game"
    /\ op.from_lives = 0
    /\ lives = InitLives
    /\ op.from_score > score

\* C19: at construction, after every tick and after every restart the icon is
\* inside the play area with room to spare: 0 <= x < width - size, y >= 0,
\* y + size < height, and 10 <= speed < 20; every pixel of its footprint is a
\* pixel of the area.
C19_IconInBounds ==
    /\ x >= 0
    /\ x < GameWidth - IconSize
    /\ y >= 0
    /\ y + IconSize < GameHeight
    /\ speed >= SpeedLo
    /\ speed < CatchSpeedHi
    /\ \A o \in Offsets : (y + o[1] \in Rows /\ x + o[2] \in Cols)

\* C19 witness: a tick has just advanced the icon, at the highest speed and in
\* the rightmost column it can take, to where the next advance reaches the bottom
C19_Witness ==
    /\ PlayingTick
    /\ y > 0
    /\ speed = CatchSpeedHi - 1
    /\ x = GameWidth - IconSize - 1
    /\ y + speed + IconSize >= GameHeight

\* C20: with every mask all-background and neither quit nor restart pressed,
\* the game started in Playing reaches GameOver with score 0 and lives 0; lives
\* goes down one miss at a time, so it takes exactly 5 miss ticks.
C20_ReachesGameOver ==
    /\ <>(game_over /\ lives = 0 /\ score = 0)
    /\ [][(lives' = lives \/ lives' = lives - 1) /\ score' = 0]_vars

\* C20 witness: the fifth miss tick has just ended a game without a catch
C20_Witness ==
    /\ PlayingTick
    /\ op.mask = AllBg
    /\ op.from_lives = 1
    /\ lives = 0
    /\ score = 0
    /\ game_over

====
